---- MODULE Spec2Model ----
(***************************************************************************)
(* serdevault: a password-protected vault file.                            *)
(*                                                                         *)
(* The model covers src/src/vault.rs (VaultFile: open, with_params,        *)
(* exists, save, load), src/src/format.rs (encode, decode, atomic_write),  *)
(* src/src/crypto/kdf.rs (derive_key) and src/src/crypto/cipher.rs         *)
(* (encrypt, decrypt).                                                     *)
(*                                                                         *)
(* Bytes are integers 0..255 and every buffer is a sequence of bytes with  *)
(* the lengths of the source (salt 32, nonce 12, header 61, tag 16).  The  *)
(* three external primitives are idealised:                                *)
(*   - OsRng never repeats an output (a counter, encoded into bytes);      *)
(*   - Argon2id is an injective function: a key is written as the inputs   *)
(*     it is the hash of, so distinct inputs give distinct keys;           *)
(*   - AES-256-GCM is an ideal authenticated cipher: its output is a       *)
(*     sequence of plaintext length + 16 bytes that names the (key, nonce, *)
(*     plaintext) it seals, and decryption accepts exactly the outputs of  *)
(*     encryption under its key and nonce.                                 *)
(* Params::new of the argon2 crate multiplies p_cost by 8 in u32; whether  *)
(* an overflow panics or wraps depends on the build, which is a variable   *)
(* of the model.                                                           *)
(* serde_json is modelled for four Rust types by a real printer and a      *)
(* real parser of JSON text.                                               *)
(***************************************************************************)
EXTENDS Integers, Sequences, FiniteSets, TLC

(***************************************************************************)
(* Program constants                                                       *)
(***************************************************************************)
SALT_SIZE == 32
KEY_SIZE == 32
NONCE_SIZE == 12
TAG_SIZE == 16
ARGON2_M_COST == 65536
ARGON2_T_COST == 3
ARGON2_P_COST == 1
FORMAT_VERSION == 1
MAGIC == <<83, 86, 76, 84>>
HEADER_SIZE == 4 + 1 + SALT_SIZE + 4 + 4 + 4 + NONCE_SIZE

\* argon2::Params limits checked by Params::new
ARGON2_MIN_M_COST == 8
ARGON2_MIN_T_COST == 1
ARGON2_MIN_P_COST == 1
ARGON2_MAX_P_COST == 16777215

(***************************************************************************)
(* Bounds of the model                                                     *)
(***************************************************************************)
\* calls of save that may be started in one behaviour
MaxCalls == 3
\* calls of save that may be started when two callers run side by side
MaxConcCalls == 2
\* process crashes in one behaviour
MaxCrashes == 1
\* write(2) calls that write_all needs for one buffer
WriteChunks == 2
\* modifications of the vault file by something other than save
MaxExternal == 1

Procs == {"a", "b"}
Passwords == {"correct", ""}
\* (m_cost, t_cost, p_cost) a caller passes to with_params: the test
\* parameters, and three triples Argon2 does not accept (t_cost = 0,
\* m_cost below the minimum, p_cost = 2^29 above the maximum)
ParamChoices == {<<8, 1, 1>>, <<8, 0, 1>>, <<7, 1, 1>>, <<8, 1, 536870912>>}

(***************************************************************************)
(* Bytes                                                                   *)
(***************************************************************************)
Byte == 0..255

Zeros(n) == [i \in 1..n |-> 0]

\* buf[lo..hi) as Rust writes it, 0-based and half-open
Slice(buf, lo, hi) == SubSeq(buf, lo + 1, hi)

\* u32::to_be_bytes
to_be_bytes(x) ==
    << (x \div 16777216) % 256, (x \div 65536) % 256, (x \div 256) % 256, x % 256 >>

\* u32::to_le_bytes
to_le_bytes(x) ==
    << x % 256, (x \div 256) % 256, (x \div 65536) % 256, (x \div 16777216) % 256 >>

\* u32::from_le_bytes
from_le_bytes(b) == b[1] + 256 * b[2] + 65536 * b[3] + 16777216 * b[4]

(***************************************************************************)
(* Results and errors (src/src/error.rs)                                   *)
(***************************************************************************)
\* One SerdeVaultError: the variant, its message and, for
\* UnsupportedVersion(u8) and the "file too small" message, its number.
Err(kind, msg, num) == [kind |-> kind, msg |-> msg, num |-> num]
NoErr == Err("none", "", 0)
IoError(msg) == Err("IoError", msg, 0)
SerializationError(msg) == Err("SerializationError", msg, 0)
DeserializationError(msg) == Err("DeserializationError", msg, 0)
EncryptionError(msg) == Err("EncryptionError", msg, 0)
DecryptionFailed == Err("DecryptionFailed", "", 0)
KdfError(msg) == Err("KdfError", msg, 0)
InvalidFormat(msg, num) == Err("InvalidFormat", msg, num)
UnsupportedVersion(v) == Err("UnsupportedVersion", "", v)
\* not an error value: the call panicked
Panicked(msg) == Err("panic", msg, 0)

(***************************************************************************)
(* The caller's values and serde_json                                      *)
(*   ty "bool"   : bool,           n = 0 (false) or 1 (true)               *)
(*   ty "opt_u8" : Option<u8>,     n = -1 (None) or the number             *)
(*   ty "opt_opt_u8" : Option<Option<u8>>, n = -2 (None), -1 (Some(None))  *)
(*                 or the number; serde_json prints None and Some(None)    *)
(*                 alike, as null, and reads null as None                  *)
(*   ty "map"    : HashMap<(u8, u8), u8>, which serde_json cannot print    *)
(*                 (a JSON object key must be a string)                    *)
(***************************************************************************)
Val(ty, n) == [ty |-> ty, n |-> n]
NoValue == Val("none", 0)
Values == {Val("bool", 1), Val("opt_u8", 42), Val("opt_opt_u8", -1), Val("map", 0)}
LoadTypes == {"bool", "opt_u8", "opt_opt_u8"}

JSON_TRUE == <<116, 114, 117, 101>>
JSON_FALSE == <<102, 97, 108, 115, 101>>
JSON_NULL == <<110, 117, 108, 108>>

RECURSIVE Digits(_)
Digits(n) == IF n < 10 THEN <<48 + n>> ELSE Append(Digits(n \div 10), 48 + (n % 10))

\* serde_json::to_vec
to_vec(v) ==
    IF v.ty = "bool"
    THEN [ok |-> TRUE, bytes |-> IF v.n = 1 THEN JSON_TRUE ELSE JSON_FALSE, err |-> NoErr]
    ELSE IF v.ty = "opt_u8"
    THEN [ok |-> TRUE, bytes |-> IF v.n = -1 THEN JSON_NULL ELSE Digits(v.n), err |-> NoErr]
    ELSE IF v.ty = "opt_opt_u8"
    THEN [ok |-> TRUE, bytes |-> IF v.n < 0 THEN JSON_NULL ELSE Digits(v.n), err |-> NoErr]
    ELSE [ok |-> FALSE, bytes |-> <<>>, err |-> SerializationError("key must be a string")]

IsDigit(b) == b >= 48 /\ b <= 57

RECURSIVE ParseDigits(_, _)
\* the number a run of ASCII digits spells, or -1 when it does not fit a u8
ParseDigits(bytes, acc) ==
    IF bytes = <<>> THEN acc
    ELSE LET next == acc * 10 + (Head(bytes) - 48)
         IN  IF next > 255 THEN -1 ELSE ParseDigits(Tail(bytes), next)

\* serde_json::from_slice::<T>
from_slice(ty, bytes) ==
    LET bad(msg) == [ok |-> FALSE, value |-> NoValue, err |-> DeserializationError(msg)]
        good(n)  == [ok |-> TRUE, value |-> Val(ty, n), err |-> NoErr]
    IN  IF bytes = <<>> THEN bad("EOF while parsing a value")
        ELSE IF ty = "bool"
        THEN IF bytes = JSON_TRUE THEN good(1)
             ELSE IF bytes = JSON_FALSE THEN good(0)
             ELSE bad("expected a boolean")
        ELSE IF ty \in {"opt_u8", "opt_opt_u8"}
        THEN IF bytes = JSON_NULL THEN good(IF ty = "opt_u8" THEN -1 ELSE -2)
             ELSE IF \E i \in 1..Len(bytes) : ~IsDigit(bytes[i]) THEN bad("expected u8")
             ELSE IF Len(bytes) > 1 /\ bytes[1] = 48 THEN bad("trailing characters")
             ELSE LET n == ParseDigits(bytes, 0)
                  IN  IF n = -1 THEN bad("invalid value: out of range") ELSE good(n)
        ELSE bad("expected a map")

(***************************************************************************)
(* Vault Frame Codec (src/src/format.rs)                                   *)
(***************************************************************************)
VaultHeader(salt, m_cost, t_cost, p_cost, nonce) ==
    [salt |-> salt, m_cost |-> m_cost, t_cost |-> t_cost, p_cost |-> p_cost, nonce |-> nonce]
NoHeader == VaultHeader(<<>>, 0, 0, 0, <<>>)

\* encode writing t_cost before m_cost
encode_costs_swapped(header, ciphertext) ==
    MAGIC \o <<FORMAT_VERSION>> \o header.salt
        \o to_le_bytes(header.t_cost) \o to_le_bytes(header.m_cost)
        \o to_le_bytes(header.p_cost) \o header.nonce \o ciphertext

encode(header, ciphertext) ==
    MAGIC \o <<FORMAT_VERSION>> \o header.salt
        \o to_le_bytes(header.m_cost) \o to_le_bytes(header.t_cost)
        \o to_le_bytes(header.p_cost) \o header.nonce \o ciphertext

DecodeOk(header, ciphertext) ==
    [tag |-> "ok", header |-> header, ciphertext |-> ciphertext, err |-> NoErr]
DecodeErr(e) == [tag |-> "err", header |-> NoHeader, ciphertext |-> <<>>, err |-> e]
\* an index or a slice out of range panics
DecodePanic == [tag |-> "panic", header |-> NoHeader, ciphertext |-> <<>>, err |-> NoErr]
NotProbed == [tag |-> "none", header |-> NoHeader, ciphertext |-> <<>>, err |-> NoErr]

\* decode looking at the version byte before the magic
decode_version_first(data) ==
    IF Len(data) < HEADER_SIZE
    THEN DecodeErr(InvalidFormat("file too small", Len(data)))
    ELSE IF data[4 + 1] # FORMAT_VERSION
    THEN DecodeErr(UnsupportedVersion(data[4 + 1]))
    ELSE IF Slice(data, 0, 4) # MAGIC
    THEN DecodeErr(InvalidFormat("invalid magic number", 0))
    ELSE DecodeOk(VaultHeader(Slice(data, 5, 5 + SALT_SIZE),
                              from_le_bytes(Slice(data, 37, 41)),
                              from_le_bytes(Slice(data, 41, 45)),
                              from_le_bytes(Slice(data, 45, 49)),
                              Slice(data, 49, HEADER_SIZE)),
                  Slice(data, HEADER_SIZE, Len(data)))

\* decode without the check of the version byte
decode_any_version(data) ==
    IF Len(data) < HEADER_SIZE
    THEN DecodeErr(InvalidFormat("file too small", Len(data)))
    ELSE IF Slice(data, 0, 4) # MAGIC
    THEN DecodeErr(InvalidFormat("invalid magic number", 0))
    ELSE DecodeOk(VaultHeader(Slice(data, 5, 5 + SALT_SIZE),
                              from_le_bytes(Slice(data, 37, 41)),
                              from_le_bytes(Slice(data, 41, 45)),
                              from_le_bytes(Slice(data, 45, 49)),
                              Slice(data, 49, HEADER_SIZE)),
                  Slice(data, HEADER_SIZE, Len(data)))

decode(data) ==
    IF Len(data) < HEADER_SIZE
    THEN DecodeErr(InvalidFormat("file too small", Len(data)))
    ELSE IF Len(data) < 4 THEN DecodePanic                      \* &data[0..4]
    ELSE IF Slice(data, 0, 4) # MAGIC
    THEN DecodeErr(InvalidFormat("invalid magic number", 0))
    ELSE IF Len(data) < 5 THEN DecodePanic                      \* data[4]
    ELSE LET version == data[4 + 1] IN
    IF version # FORMAT_VERSION
    THEN DecodeErr(UnsupportedVersion(version))
    ELSE IF Len(data) < HEADER_SIZE THEN DecodePanic            \* data[5..61]
    ELSE LET salt == Slice(data, 5, 5 + SALT_SIZE)
             o == 5 + SALT_SIZE
             m_cost == from_le_bytes(Slice(data, o, o + 4))
             t_cost == from_le_bytes(Slice(data, o + 4, o + 8))
             p_cost == from_le_bytes(Slice(data, o + 8, o + 12))
             nonce_start == o + 12
             nonce == Slice(data, nonce_start, nonce_start + NONCE_SIZE)
             ciphertext == Slice(data, HEADER_SIZE, Len(data))
         IN  DecodeOk(VaultHeader(salt, m_cost, t_cost, p_cost, nonce), ciphertext)

(***************************************************************************)
(* External primitives, idealised                                          *)
(***************************************************************************)
\* a generator that gives the same bytes at every draw
ConstBytes(n, c) == [i \in 1..n |-> 4]

\* OsRng.fill_bytes: the c-th output of the generator, n bytes long.  The
\* outputs of different draws differ (in every byte).
OsRngBytes(n, c) == [i \in 1..n |-> (17 * c + i) % 256]

KdfInput(password, salt, m_cost, t_cost, p_cost) ==
    [password |-> password, salt |-> salt,
     m_cost |-> m_cost, t_cost |-> t_cost, p_cost |-> p_cost]

\* Whether the build checks integer arithmetic for overflow (the dev and
\* test profiles do, the release profile does not); it never changes
VARIABLE overflow_checks

\* what Params::new gives when it panics instead of returning
PARAMS_PANIC == "attempt to multiply with overflow"

\* argon2::Params::new(m_cost, t_cost, p_cost, Some(KEY_SIZE)): "" when the
\* parameters are accepted, the error's text otherwise.  Its second check
\* is m_cost < p_cost * 8 in u32: from p_cost = 2^29 on the product does
\* not fit, and the build decides between a panic and the wrapped product.
Argon2ParamsNew(m_cost, t_cost, p_cost) ==
    LET overflows == p_cost >= 536870912
        wrapped == (p_cost % 536870912) * 8
    IN  IF m_cost < ARGON2_MIN_M_COST THEN "memory cost is too small"
        ELSE IF overflows /\ overflow_checks THEN PARAMS_PANIC
        ELSE IF m_cost < wrapped THEN "memory cost is too small"
        ELSE IF t_cost < ARGON2_MIN_T_COST THEN "time cost is too small"
        ELSE IF p_cost < ARGON2_MIN_P_COST THEN "not enough threads"
        ELSE IF p_cost > ARGON2_MAX_P_COST THEN "too many threads"
        ELSE ""

\* Argon2::hash_password_into: the KEY_SIZE bytes it fills, written as the
\* hash of its inputs
Argon2HashPasswordInto(password, salt, m_cost, t_cost, p_cost) ==
    [argon2id |-> KdfInput(password, salt, m_cost, t_cost, p_cost)]

\* [0u8; KEY_SIZE]: the key buffer before it is filled and after it is wiped
ZeroKey == [argon2id |-> KdfInput("", <<>>, 0, 0, 0)]

\* kdf::derive_key
derive_key(password, salt, m_cost, t_cost, p_cost) ==
    LET params == Argon2ParamsNew(m_cost, t_cost, p_cost)
    IN  IF params = PARAMS_PANIC
        THEN [ok |-> FALSE, key |-> ZeroKey, err |-> Panicked(params)]
        ELSE IF params # ""
        THEN [ok |-> FALSE, key |-> ZeroKey, err |-> KdfError(params)]
        ELSE [ok |-> TRUE,
              key |-> Argon2HashPasswordInto(password, salt, m_cost, t_cost, p_cost),
              err |-> NoErr]

Sealed(key, nonce, plaintext) == [key |-> key, nonce |-> nonce, plaintext |-> plaintext]

NoSealed == Sealed(ZeroKey, <<>>, <<>>)

\* the i-th byte of the ciphertext-with-tag AES-256-GCM gives for s: the
\* first byte names what is sealed, the others their position
GcmByte(s, i) == [gcm |-> IF i = 1 THEN s ELSE NoSealed, i |-> i]

\* Aes256Gcm::encrypt(nonce, plaintext): plaintext length + TAG_SIZE bytes
Aes256GcmEncrypt(key, nonce, plaintext) ==
    [i \in 1..(Len(plaintext) + TAG_SIZE) |-> GcmByte(Sealed(key, nonce, plaintext), i)]

\* decryption that does not verify the tag: under another key or nonce,
\* or for other bytes, it gives bytes that are not the plaintext
Aes256CtrDecrypt(key, nonce, ciphertext) ==
    IF Len(ciphertext) < TAG_SIZE THEN [ok |-> FALSE, plaintext |-> <<>>]
    ELSE LET s == ciphertext[1].gcm
         IN  IF /\ s.key = key
                /\ s.nonce = nonce
                /\ Len(ciphertext) = Len(s.plaintext) + TAG_SIZE
             THEN [ok |-> TRUE, plaintext |-> s.plaintext]
             ELSE [ok |-> TRUE, plaintext |-> [i \in 1..(Len(ciphertext) - TAG_SIZE) |-> 255]]

\* Aes256Gcm::decrypt(nonce, ciphertext): the tag verifies exactly when the
\* bytes are what encryption gives under this key and this nonce
Aes256GcmDecrypt(key, nonce, ciphertext) ==
    IF Len(ciphertext) < TAG_SIZE THEN [ok |-> FALSE, plaintext |-> <<>>]
    ELSE LET s == ciphertext[1].gcm
         IN  IF /\ s.key = key
                /\ s.nonce = nonce
                /\ ciphertext = Aes256GcmEncrypt(key, nonce, s.plaintext)
             THEN [ok |-> TRUE, plaintext |-> s.plaintext]
             ELSE [ok |-> FALSE, plaintext |-> <<>>]

\* cipher::encrypt, rng being the number of the generator's next output
encrypt(rng0, plaintext, key) ==
    LET nonce_bytes == OsRngBytes(NONCE_SIZE, rng0)
    IN  [ok |-> TRUE, ciphertext |-> Aes256GcmEncrypt(key, nonce_bytes, plaintext),
         nonce |-> nonce_bytes, err |-> NoErr, rng |-> rng0 + 1]

\* decrypt with an error of its own for a ciphertext shorter than a tag
decrypt_short_input(ciphertext, key, nonce_bytes) ==
    IF Len(ciphertext) < TAG_SIZE
    THEN [ok |-> FALSE, plaintext |-> <<>>,
          err |-> InvalidFormat("ciphertext too short", Len(ciphertext))]
    ELSE LET d == Aes256GcmDecrypt(key, nonce_bytes, ciphertext)
         IN  IF ~d.ok
             THEN [ok |-> FALSE, plaintext |-> <<>>, err |-> DecryptionFailed]
             ELSE [ok |-> TRUE, plaintext |-> d.plaintext, err |-> NoErr]

\* cipher::decrypt
decrypt(ciphertext, key, nonce_bytes) ==
    LET d == Aes256GcmDecrypt(key, nonce_bytes, ciphertext)
    IN  IF ~d.ok
        THEN [ok |-> FALSE, plaintext |-> <<>>, err |-> DecryptionFailed]
        ELSE [ok |-> TRUE, plaintext |-> d.plaintext, err |-> NoErr]

\* Zeroizing<Vec<u8>>::drop: the buffer is overwritten with zeros
Zeroize(buf) == Zeros(Len(buf))

\* a key buffer that is a plain [u8; KEY_SIZE]: dropping it leaves the bytes
KeepKey(key) == key

\* Zeroizing<[u8; KEY_SIZE]>::drop
ZeroizeKey(key) == ZeroKey

(***************************************************************************)
(* State                                                                   *)
(***************************************************************************)
VARIABLES
    fs,        \* the directory of the vault: path -> file
    parent,    \* whether the directory of the vault exists
    handle,    \* the VaultFile each caller uses
    pc,        \* where each caller is
    fr,        \* each caller's call frame: the locals of save / load
    ret,       \* what each caller's call returned
    rng,       \* the number of the next OsRng output
    commits,   \* history: the saves whose rename committed, in order
    last,      \* history: the save whose rename committed last
    calls,     \* save calls started
    crashes,   \* callers that crashed
    external,  \* modifications of the vault file made by something else
    probe,     \* the input of a codec experiment
    probed     \* its result

vars == <<overflow_checks, fs, parent, handle, pc, fr, ret, rng, commits, last, calls, crashes,
          external, probe, probed>>

\* ---- the file system
File(data) == [exists |-> TRUE, data |-> data]
Absent == [exists |-> FALSE, data |-> <<>>]

VaultPath == <<"vault">>
\* writing to the vault file itself
TargetPath(n) == VaultPath

\* a temporary file with the same name for every call
SharedTmpPath(n) == <<"tmp", 0>>

\* NamedTempFile::new_in(parent): a name in the directory no other call has;
\* n is the number of the call
TmpPath(n) == <<"tmp", n>>
Paths == {VaultPath} \cup {<<"tmp", n>> : n \in 0..MaxCalls}

\* write(2) of chunk at offset off of the open file
WriteAt(file, off, chunk) ==
    LET old == file.data
        end == off + Len(chunk)
        len == IF Len(old) > end THEN Len(old) ELSE end
    IN  File([i \in 1..len |->
                 IF i > off /\ i <= end THEN chunk[i - off]
                 ELSE IF i <= Len(old) THEN old[i] ELSE 0])

\* rename(2): the target names the source's file from now on
Rename(dir, from, to) ==
    IF from = to THEN dir
    ELSE [dir EXCEPT ![to] = dir[from], ![from] = Absent]

\* remove_file
Remove(dir, path) == [dir EXCEPT ![path] = Absent]

\* the bytes one write(2) of write_all takes
ChunkLen(data) == (Len(data) + WriteChunks - 1) \div WriteChunks

\* ---- handles, frames, results
Handle(password, m_cost, t_cost, p_cost) ==
    [open |-> TRUE, password |-> password,
     m_cost |-> m_cost, t_cost |-> t_cost, p_cost |-> p_cost]
NoHandle == [open |-> FALSE, password |-> "", m_cost |-> 0, t_cost |-> 0, p_cost |-> 0]

\* VaultFile::open
open(password) == Handle(password, ARGON2_M_COST, ARGON2_T_COST, ARGON2_P_COST)

\* VaultFile::with_params
with_params(h, m_cost, t_cost, p_cost) ==
    [h EXCEPT !.m_cost = m_cost, !.t_cost = t_cost, !.p_cost = p_cost]

\* exists answering for any file in the directory of the vault
exists_in_dir(dir) == \E path \in Paths : dir[path].exists

\* VaultFile::exists
exists(dir) == dir[VaultPath].exists

NoFrame ==
    [op |-> "none", ty |-> "none", value |-> NoValue,
     plaintext |-> <<>>, key |-> ZeroKey, header |-> NoHeader,
     encoded |-> <<>>, raw |-> <<>>,
     call |-> 0, tmp |-> FALSE, off |-> 0, trace |-> <<>>]

Ret(op, status, value, err) == [op |-> op, status |-> status, value |-> value, err |-> err]
NoRet == Ret("none", "none", NoValue, NoErr)

\* The locals that are Zeroizing<_> are overwritten when the call returns:
\* plaintext (vault.rs:71, cipher.rs:47) and key (kdf.rs:29).
DropLocals(f) == [f EXCEPT !.plaintext = Zeroize(@), !.key = ZeroizeKey(@)]

(***************************************************************************)
(* VaultFile::save up to the call of atomic_write, and VaultFile::load     *)
(***************************************************************************)
\* save, lines 70-90: serialize, draw the salt, derive the key, encrypt,
\* encode.  returned = TRUE when a ? returned the error.
save_prepare(h, data, rng0) ==
    LET f0 == [NoFrame EXCEPT !.op = "save", !.value = data, !.trace = <<"to_vec">>]
        s == to_vec(data)
    IN  IF ~s.ok
        THEN [returned |-> TRUE, ret |-> Ret("save", "err", NoValue, s.err),
              frame |-> DropLocals(f0), rng |-> rng0]
        ELSE
    LET f1 == [f0 EXCEPT !.plaintext = s.bytes,
                         !.trace = @ \o <<"fill_bytes", "derive_key">>]
        salt == OsRngBytes(SALT_SIZE, rng0)
        k == derive_key(h.password, salt, h.m_cost, h.t_cost, h.p_cost)
    IN  IF ~k.ok
        THEN [returned |-> TRUE,
              ret |-> IF k.err.kind = "panic" THEN Ret("save", "panic", NoValue, NoErr)
                      ELSE Ret("save", "err", NoValue, k.err),
              frame |-> DropLocals(f1), rng |-> rng0 + 1]
        ELSE
    LET f2 == [f1 EXCEPT !.key = k.key, !.trace = @ \o <<"encrypt">>]
        e == encrypt(rng0 + 1, f2.plaintext, f2.key)
    IN  IF ~e.ok
        THEN [returned |-> TRUE, ret |-> Ret("save", "err", NoValue, e.err),
              frame |-> DropLocals(f2), rng |-> e.rng]
        ELSE
    LET header == VaultHeader(salt, h.m_cost, h.t_cost, h.p_cost, e.nonce)
        encoded == encode(header, e.ciphertext)
    IN  [returned |-> FALSE, ret |-> NoRet,
         frame |-> [f2 EXCEPT !.header = header, !.encoded = encoded,
                              !.trace = @ \o <<"encode", "atomic_write">>],
         rng |-> e.rng]

\* std::fs::read(&self.path)
fs_read(dir) ==
    IF dir[VaultPath].exists
    THEN [ok |-> TRUE, data |-> dir[VaultPath].data, err |-> NoErr]
    ELSE [ok |-> FALSE, data |-> <<>>, err |-> IoError("NotFound")]

\* load deriving the key from the handle's cost parameters
load_with_handle_params(h, ty, dir) ==
    LET f0 == [NoFrame EXCEPT !.op = "load", !.ty = ty, !.trace = <<"fs::read">>]
        r == fs_read(dir)
    IN  IF ~r.ok
        THEN [ret |-> Ret("load", "err", NoValue, r.err), frame |-> DropLocals(f0)]
        ELSE
    LET f1 == [f0 EXCEPT !.raw = r.data, !.trace = @ \o <<"decode">>]
        d == decode(r.data)
    IN  IF d.tag # "ok"
        THEN [ret |-> Ret("load", "err", NoValue, d.err), frame |-> DropLocals(f1)]
        ELSE
    LET f2 == [f1 EXCEPT !.trace = @ \o <<"derive_key">>]
        k == derive_key(h.password, d.header.salt, h.m_cost, h.t_cost, h.p_cost)
    IN  IF ~k.ok
        THEN [ret |-> IF k.err.kind = "panic" THEN Ret("load", "panic", NoValue, NoErr)
                      ELSE Ret("load", "err", NoValue, k.err),
              frame |-> DropLocals(f2)]
        ELSE
    LET f3 == [f2 EXCEPT !.key = k.key, !.trace = @ \o <<"decrypt">>]
        x == decrypt(d.ciphertext, f3.key, d.header.nonce)
    IN  IF ~x.ok
        THEN [ret |-> Ret("load", "err", NoValue, x.err), frame |-> DropLocals(f3)]
        ELSE
    LET f4 == [f3 EXCEPT !.plaintext = x.plaintext, !.trace = @ \o <<"from_slice">>]
        v == from_slice(ty, f4.plaintext)
    IN  IF ~v.ok
        THEN [ret |-> Ret("load", "err", NoValue, v.err), frame |-> DropLocals(f4)]
        ELSE [ret |-> Ret("load", "ok", v.value, NoErr), frame |-> DropLocals(f4)]

\* load, lines 97-116
load(h, ty, dir) ==
    LET f0 == [NoFrame EXCEPT !.op = "load", !.ty = ty, !.trace = <<"fs::read">>]
        r == fs_read(dir)
    IN  IF ~r.ok
        THEN [ret |-> Ret("load", "err", NoValue, r.err), frame |-> DropLocals(f0)]
        ELSE
    LET f1 == [f0 EXCEPT !.raw = r.data, !.trace = @ \o <<"decode">>]
        d == decode(r.data)
    IN  IF d.tag = "panic"
        THEN [ret |-> Ret("load", "panic", NoValue, NoErr), frame |-> f1]
        ELSE IF d.tag = "err"
        THEN [ret |-> Ret("load", "err", NoValue, d.err), frame |-> DropLocals(f1)]
        ELSE
    LET f2 == [f1 EXCEPT !.trace = @ \o <<"derive_key">>]
        k == derive_key(h.password, d.header.salt,
                        d.header.m_cost, d.header.t_cost, d.header.p_cost)
    IN  IF ~k.ok
        THEN [ret |-> IF k.err.kind = "panic" THEN Ret("load", "panic", NoValue, NoErr)
                      ELSE Ret("load", "err", NoValue, k.err),
              frame |-> DropLocals(f2)]
        ELSE
    LET f3 == [f2 EXCEPT !.key = k.key, !.trace = @ \o <<"decrypt">>]
        x == decrypt(d.ciphertext, f3.key, d.header.nonce)
    IN  IF ~x.ok
        THEN [ret |-> Ret("load", "err", NoValue, x.err), frame |-> DropLocals(f3)]
        ELSE
    LET f4 == [f3 EXCEPT !.plaintext = x.plaintext, !.trace = @ \o <<"from_slice">>]
        v == from_slice(ty, f4.plaintext)
    IN  IF ~v.ok
        THEN [ret |-> Ret("load", "err", NoValue, v.err), frame |-> DropLocals(f4)]
        ELSE [ret |-> Ret("load", "ok", v.value, NoErr), frame |-> DropLocals(f4)]

(***************************************************************************)
(* Actions                                                                 *)
(***************************************************************************)
AwSteps == {"create_dir_all", "new_in", "write_all", "sync_all", "persist"}

\* what the history keeps of the save that committed last ...
Commit(p, f, h) ==
    [by |-> p, bytes |-> f.encoded, value |-> f.value, password |-> h.password,
     m_cost |-> h.m_cost, t_cost |-> h.t_cost, p_cost |-> h.p_cost]
NoCommit ==
    [by |-> "", bytes |-> <<>>, value |-> NoValue, password |-> "",
     m_cost |-> 0, t_cost |-> 0, p_cost |-> 0]

\* ... and of every save that committed: its salt, its nonce, and whether
\* it saved the same value with the same password as the one before it
Fresh(f, h, prev) ==
    [salt |-> f.header.salt, nonce |-> f.header.nonce,
     again |-> (prev.value = f.value /\ prev.password = h.password /\ prev.by # "")]

InitProgram ==
    /\ overflow_checks \in BOOLEAN
    /\ fs = [path \in Paths |-> Absent]
    /\ parent = FALSE
    /\ handle = [p \in Procs |-> NoHandle]
    /\ pc = [p \in Procs |-> "idle"]
    /\ fr = [p \in Procs |-> NoFrame]
    /\ ret = [p \in Procs |-> NoRet]
    /\ rng = 1
    /\ commits = <<>>
    /\ last = NoCommit
    /\ calls = 0
    /\ crashes = 0
    /\ external = 0

Init ==
    /\ InitProgram
    /\ probe = <<>>
    /\ probed = NotProbed

\* VaultFile::open(path, password), alone (c = <<>>) or followed by
\* .with_params(m_cost, t_cost, p_cost); a caller whose process died starts
\* again with a new process
Open(p, password, c) ==
    /\ pc[p] \in {"idle", "crashed"}
    /\ pc' = [pc EXCEPT ![p] = "idle"]
    /\ handle' = [handle EXCEPT ![p] =
                      IF c = <<>> THEN open(password)
                      ELSE with_params(open(password), c[1], c[2], c[3])]
    /\ UNCHANGED <<overflow_checks, fs, parent, fr, ret, rng, commits, last, calls, crashes,
                   external, probe, probed>>

\* vault.save(&data), up to the call of atomic_write
SaveCall(p, data) ==
    /\ handle[p].open
    /\ pc[p] = "idle"
    /\ calls < MaxCalls
    /\ calls' = calls + 1
    /\ LET s == save_prepare(handle[p], data, rng)
       IN  /\ fr' = [fr EXCEPT ![p] = [s.frame EXCEPT !.call = calls + 1]]
           /\ ret' = [ret EXCEPT ![p] = s.ret]
           /\ pc' = [pc EXCEPT ![p] = IF s.returned THEN "returned" ELSE "create_dir_all"]
           /\ rng' = s.rng
    /\ UNCHANGED <<overflow_checks, fs, parent, handle, commits, last, crashes, external, probe, probed>>

\* atomic_write: fs::create_dir_all(parent)?
AwCreateDir(p) ==
    /\ pc[p] = "create_dir_all"
    /\ parent' = TRUE
    /\ pc' = [pc EXCEPT ![p] = "new_in"]
    /\ UNCHANGED <<overflow_checks, fs, handle, fr, ret, rng, commits, last, calls, crashes,
                   external, probe, probed>>

\* atomic_write: NamedTempFile::new_in(parent)?
AwNewTemp(p) ==
    /\ pc[p] = "new_in"
    /\ fs' = [fs EXCEPT ![TmpPath(fr[p].call)] = File(<<>>)]
    /\ fr' = [fr EXCEPT ![p].tmp = TRUE, ![p].off = 0]
    /\ pc' = [pc EXCEPT ![p] = "write_all"]
    /\ UNCHANGED <<overflow_checks, parent, handle, ret, rng, commits, last, calls, crashes,
                   external, probe, probed>>

\* atomic_write: tmp.write_all(data)?, one write(2) at a time; tmp.flush()?
\* does nothing on a file
AwWrite(p) ==
    /\ pc[p] = "write_all"
    /\ LET data == fr[p].encoded
           off == fr[p].off
           end == IF off + ChunkLen(data) > Len(data) THEN Len(data)
                  ELSE off + ChunkLen(data)
       IN  /\ fs' = [fs EXCEPT ![TmpPath(fr[p].call)] =
                        IF @.exists THEN WriteAt(@, off, SubSeq(data, off + 1, end))
                        ELSE @]
           /\ fr' = [fr EXCEPT ![p].off = end]
           /\ pc' = [pc EXCEPT ![p] = IF end = Len(data) THEN "sync_all" ELSE "write_all"]
    /\ UNCHANGED <<overflow_checks, parent, handle, ret, rng, commits, last, calls, crashes,
                   external, probe, probed>>

\* atomic_write: tmp.as_file().sync_all()?
AwSync(p) ==
    /\ pc[p] = "sync_all"
    /\ pc' = [pc EXCEPT ![p] = "persist"]
    /\ UNCHANGED <<overflow_checks, fs, parent, handle, fr, ret, rng, commits, last, calls, crashes,
                   external, probe, probed>>

\* atomic_write: tmp.persist(path) renames the temporary file onto the
\* vault; save returns Ok(())
AwPersist(p) ==
    /\ pc[p] = "persist"
    /\ fs[TmpPath(fr[p].call)].exists
    /\ fs' = Rename(fs, TmpPath(fr[p].call), VaultPath)
    /\ commits' = Append(commits, Fresh(fr[p], handle[p], last))
    /\ last' = Commit(p, fr[p], handle[p])
    /\ fr' = [fr EXCEPT ![p] = DropLocals(@)]
    /\ ret' = [ret EXCEPT ![p] = Ret("save", "ok", NoValue, NoErr)]
    /\ pc' = [pc EXCEPT ![p] = "returned"]
    /\ UNCHANGED <<overflow_checks, parent, handle, rng, calls, crashes, external, probe, probed>>

\* atomic_write: the step at hand fails with an I/O error; ? returns it,
\* and dropping the NamedTempFile removes the temporary file
AwFail(p) ==
    /\ pc[p] \in AwSteps
    /\ fs' = IF fr[p].tmp THEN Remove(fs, TmpPath(fr[p].call)) ELSE fs
    /\ fr' = [fr EXCEPT ![p] = DropLocals(@)]
    /\ ret' = [ret EXCEPT ![p] = Ret("save", "err", NoValue, IoError("os error"))]
    /\ pc' = [pc EXCEPT ![p] = "returned"]
    /\ UNCHANGED <<overflow_checks, parent, handle, rng, commits, last, calls, crashes, external,
                   probe, probed>>

\* the caller's process dies inside atomic_write: nothing is dropped, the
\* temporary file stays where it is
Crash(p) ==
    /\ pc[p] \in AwSteps
    /\ crashes < MaxCrashes
    /\ crashes' = crashes + 1
    /\ pc' = [pc EXCEPT ![p] = "crashed"]
    /\ fr' = [fr EXCEPT ![p] = NoFrame]
    /\ ret' = [ret EXCEPT ![p] = NoRet]
    /\ handle' = [handle EXCEPT ![p] = NoHandle]
    /\ UNCHANGED <<overflow_checks, fs, parent, rng, commits, last, calls, external, probe, probed>>

\* a load that opens the file for writing too and so creates it when it is
\* missing
LoadCallCreating(p, ty) ==
    /\ handle[p].open
    /\ pc[p] = "idle"
    /\ LET l == load(handle[p], ty, fs)
       IN  /\ fr' = [fr EXCEPT ![p] = l.frame]
           /\ ret' = [ret EXCEPT ![p] = l.ret]
           /\ pc' = [pc EXCEPT ![p] = "returned"]
    /\ fs' = [fs EXCEPT ![VaultPath] = IF @.exists THEN @ ELSE File(<<>>)]
    /\ UNCHANGED <<overflow_checks, parent, handle, rng, commits, last, calls, crashes,
                   external, probe, probed>>

\* vault.load::<T>()
LoadCall(p, ty) ==
    /\ handle[p].open
    /\ pc[p] = "idle"
    /\ LET l == load(handle[p], ty, fs)
       IN  /\ fr' = [fr EXCEPT ![p] = l.frame]
           /\ ret' = [ret EXCEPT ![p] = l.ret]
           /\ pc' = [pc EXCEPT ![p] = "returned"]
    /\ UNCHANGED <<overflow_checks, fs, parent, handle, rng, commits, last, calls, crashes,
                   external, probe, probed>>

\* the caller takes the result of the call and goes on; the frame is gone
Resume(p) ==
    /\ pc[p] = "returned"
    /\ pc' = [pc EXCEPT ![p] = "idle"]
    /\ fr' = [fr EXCEPT ![p] = NoFrame]
    /\ ret' = [ret EXCEPT ![p] = NoRet]
    /\ UNCHANGED <<overflow_checks, fs, parent, handle, rng, commits, last, calls, crashes,
                   external, probe, probed>>

\* One caller, one call at a time, any handle
Next ==
    \/ \E password \in Passwords, c \in {<<>>} \cup ParamChoices : Open("a", password, c)
    \/ \E data \in Values : SaveCall("a", data)
    \/ AwCreateDir("a")
    \/ AwNewTemp("a")
    \/ AwWrite("a")
    \/ AwSync("a")
    \/ AwPersist("a")
    \/ AwFail("a")
    \/ \E ty \in LoadTypes : LoadCall("a", ty)
    \/ Resume("a")

Spec == Init /\ [][Next]_vars

(***************************************************************************)
(* Two callers, their calls interleaved, and crashes.  Both use the same   *)
(* password and the parameters of the tests.                               *)
(***************************************************************************)
ConcValues == {Val("bool", 1), Val("opt_u8", 42)}

NextConc ==
    \/ \E p \in Procs : Open(p, "correct", <<8, 1, 1>>)
    \/ \E p \in Procs, data \in ConcValues : calls < MaxConcCalls /\ SaveCall(p, data)
    \/ \E p \in Procs : AwCreateDir(p)
    \/ \E p \in Procs : AwNewTemp(p)
    \/ \E p \in Procs : AwWrite(p)
    \/ \E p \in Procs : AwSync(p)
    \/ \E p \in Procs : AwPersist(p)
    \/ \E p \in Procs : AwFail(p)
    \/ \E p \in Procs : Crash(p)
    \/ \E p \in Procs : LoadCall(p, "opt_u8")
    \/ \E p \in Procs : Resume(p)

\* with p_cost = 1 no product overflows, so the build makes no difference
InitConc == Init /\ overflow_checks

SpecConc == InitConc /\ [][NextConc]_vars

(***************************************************************************)
(* One caller, and something else that modifies the vault file: it         *)
(* truncates it, changes one byte of it, or puts another file in its       *)
(* place, as the tests of vault.rs do.                                     *)
(***************************************************************************)
\* the byte that is not b; a byte of a ciphertext becomes a byte that no
\* ciphertext has at its position
Altered(b, off) ==
    IF off < HEADER_SIZE THEN (b + 1) % 256 ELSE [b EXCEPT !.i = 0 - @]

\* vec![0xFFu8; HEADER_SIZE + 16], test_bad_magic
Garbage ==
    [i \in 1..(HEADER_SIZE + TAG_SIZE) |->
        IF i <= HEADER_SIZE THEN 255 ELSE Altered(GcmByte(NoSealed, i - HEADER_SIZE), i)]

TruncLens(data) == {n \in {0, 4, HEADER_SIZE - 1, HEADER_SIZE, Len(data) - 1} : n < Len(data)}

ExtTruncate(n) ==
    /\ external < MaxExternal
    /\ fs[VaultPath].exists
    /\ n \in TruncLens(fs[VaultPath].data)
    /\ external' = external + 1
    /\ fs' = [fs EXCEPT ![VaultPath] = File(SubSeq(@.data, 1, n))]
    /\ UNCHANGED <<overflow_checks, parent, handle, pc, fr, ret, rng, commits, last, calls,
                   crashes, probe, probed>>

\* raw[off] = another byte
ExtAlter(off) ==
    /\ external < MaxExternal
    /\ fs[VaultPath].exists
    /\ off < Len(fs[VaultPath].data)
    /\ external' = external + 1
    /\ fs' = [fs EXCEPT ![VaultPath] =
                 File([@.data EXCEPT ![off + 1] = Altered(@, off)])]
    /\ UNCHANGED <<overflow_checks, parent, handle, pc, fr, ret, rng, commits, last, calls,
                   crashes, probe, probed>>

\* raw[4] = 99, test_unsupported_version
ExtVersion(v) ==
    /\ external < MaxExternal
    /\ fs[VaultPath].exists
    /\ Len(fs[VaultPath].data) > 4
    /\ fs[VaultPath].data[5] # v
    /\ external' = external + 1
    /\ fs' = [fs EXCEPT ![VaultPath] = File([@.data EXCEPT ![5] = v])]
    /\ UNCHANGED <<overflow_checks, parent, handle, pc, fr, ret, rng, commits, last, calls,
                   crashes, probe, probed>>

\* raw[off] = b for a byte of the cost parameters
ExtSetCost(off, b) ==
    /\ external < MaxExternal
    /\ fs[VaultPath].exists
    /\ off >= 5 + SALT_SIZE
    /\ off < HEADER_SIZE - NONCE_SIZE
    /\ off < Len(fs[VaultPath].data)
    /\ fs[VaultPath].data[off + 1] # b
    /\ external' = external + 1
    /\ fs' = [fs EXCEPT ![VaultPath] = File([@.data EXCEPT ![off + 1] = b])]
    /\ UNCHANGED <<overflow_checks, parent, handle, pc, fr, ret, rng, commits, last,
                   calls, crashes, probe, probed>>

\* std::fs::write(&path, data), test_empty_file and test_bad_magic
ExtWrite(data) ==
    /\ external < MaxExternal
    /\ external' = external + 1
    /\ parent' = TRUE
    /\ fs' = [fs EXCEPT ![VaultPath] = File(data)]
    /\ UNCHANGED <<overflow_checks, handle, pc, fr, ret, rng, commits, last, calls,
                   crashes, probe, probed>>

MaxFileLen == HEADER_SIZE + 4 + TAG_SIZE

\* the first and the last byte of every field of the frame, and of the
\* ciphertext its first byte, the last byte before the tag, the first and
\* the last byte of the tag of the two-byte plaintext "42"
AlterOffsets ==
    {0, 3, 4, 5, 4 + SALT_SIZE, 5 + SALT_SIZE, 8 + SALT_SIZE, 9 + SALT_SIZE,
     12 + SALT_SIZE, 13 + SALT_SIZE, 16 + SALT_SIZE,
     HEADER_SIZE - NONCE_SIZE, HEADER_SIZE - 1,
     HEADER_SIZE, HEADER_SIZE + 1, HEADER_SIZE + 2, HEADER_SIZE + 1 + TAG_SIZE}

\* the lowest byte of m_cost, t_cost and p_cost and the highest of m_cost
\* and p_cost; the bytes that make a cost 0, 2, 7, or 2^29 and more
CostOffsets == {5 + SALT_SIZE, 8 + SALT_SIZE, 9 + SALT_SIZE, 13 + SALT_SIZE, 16 + SALT_SIZE}
CostBytes == {0, 2, 7, 32}

NextExt ==
    \/ \E password \in Passwords : Open("a", password, <<8, 1, 1>>)
    \/ commits = <<>> /\ SaveCall("a", Val("opt_u8", 42))
    \/ AwCreateDir("a")
    \/ AwNewTemp("a")
    \/ AwWrite("a")
    \/ AwSync("a")
    \/ AwPersist("a")
    \/ \E ty \in LoadTypes : LoadCall("a", ty)
    \/ Resume("a")
    \/ \E n \in 0..MaxFileLen : ExtTruncate(n)
    \/ \E off \in AlterOffsets : ExtAlter(off)
    \/ ExtVersion(99)
    \/ \E off \in CostOffsets, b \in CostBytes : ExtSetCost(off, b)
    \/ \E data \in {<<>>, Garbage} : ExtWrite(data)

SpecExt == Init /\ [][NextExt]_vars

(***************************************************************************)
(* decode applied to byte sequences                                        *)
(***************************************************************************)
ProbeLens == {0, 3, 4, 5, HEADER_SIZE - 1, HEADER_SIZE, HEADER_SIZE + 1, HEADER_SIZE + TAG_SIZE}
ProbeMagics == {MAGIC, <<84, 86, 76, 84>>, <<83, 86, 76, 85>>, <<255, 255, 255, 255>>, <<0, 0, 0, 0>>}
ProbeVersions == {0, 1, 2, 99, 255}
ProbeFills == {0, 7}

\* len bytes: the magic, the version, and the same byte in the rest of the
\* header; the bytes after the header are ciphertext bytes
ProbeInput(len, magic, version, fill) ==
    [i \in 1..len |->
        IF i <= 4 THEN magic[i]
        ELSE IF i = 5 THEN version
        ELSE IF i <= HEADER_SIZE THEN fill
        ELSE GcmByte(NoSealed, i - HEADER_SIZE)]

InitDecode ==
    /\ InitProgram
    /\ probe \in {ProbeInput(len, magic, version, fill) :
                     len \in ProbeLens, magic \in ProbeMagics,
                     version \in ProbeVersions, fill \in ProbeFills}
    /\ probed = NotProbed

DecodeProbe ==
    /\ probed.tag = "none"
    /\ probed' = decode(probe)
    /\ UNCHANGED <<overflow_checks, fs, parent, handle, pc, fr, ret, rng, commits, last, calls,
                   crashes, external, probe>>

NextDecode == DecodeProbe

SpecDecode == InitDecode /\ [][NextDecode]_vars

(***************************************************************************)
(* encode applied to headers and ciphertexts, and decode to its output     *)
(***************************************************************************)
\* u32 values: the smallest, the parameters of the tests and the defaults,
\* values with a byte set in every position, the largest TLC can hold
CodecCosts == {0, 8, 65536, 16909060, 2147483647}
CodecSalts == {Zeros(SALT_SIZE), OsRngBytes(SALT_SIZE, 1), [i \in 1..SALT_SIZE |-> 255]}
CodecNonces == {Zeros(NONCE_SIZE), OsRngBytes(NONCE_SIZE, 2)}
CodecCiphertextLens == {0, 1, TAG_SIZE, TAG_SIZE + 3}

InitCodec ==
    /\ InitProgram
    /\ probe \in {[header |-> VaultHeader(salt, m_cost, t_cost, p_cost, nonce),
                    ciphertext |-> [i \in 1..len |-> GcmByte(NoSealed, i)]] :
                      salt \in CodecSalts, m_cost \in CodecCosts, t_cost \in CodecCosts,
                      p_cost \in CodecCosts, nonce \in CodecNonces,
                      len \in CodecCiphertextLens}
    /\ probed = NotProbed

\* encode(&header, &ciphertext)
CodecEncode ==
    /\ probed.tag = "none"
    /\ probed' = [tag |-> "encoded", bytes |-> encode(probe.header, probe.ciphertext)]
    /\ UNCHANGED <<overflow_checks, fs, parent, handle, pc, fr, ret, rng, commits, last, calls,
                   crashes, external, probe>>

\* decode(&encoded)
CodecDecode ==
    /\ probed.tag = "encoded"
    /\ probed' = decode(probed.bytes)
    /\ UNCHANGED <<overflow_checks, fs, parent, handle, pc, fr, ret, rng, commits, last, calls,
                   crashes, external, probe>>

NextCodec == CodecEncode \/ CodecDecode

SpecCodec == InitCodec /\ [][NextCodec]_vars

(***************************************************************************)
(* Properties                                                              *)
(***************************************************************************)
\* caller p's load has returned, and the bytes it read are those of the
\* save that committed last
LoadOfLast(p) ==
    /\ pc[p] = "returned"
    /\ fr[p].op = "load"
    /\ last.by # ""
    /\ fr[p].raw = last.bytes

\* serde_json reads v back from what it prints for v
CodecRoundTrips(v) ==
    LET s == to_vec(v)
    IN  /\ s.ok
        /\ from_slice(v.ty, s.bytes).ok
        /\ from_slice(v.ty, s.bytes).value = v

NoCrypto(trace) == \A i \in 1..Len(trace) : trace[i] \notin {"derive_key", "decrypt"}

\* C1, as the claim states it: for every value v that save accepts and
\* every password, a load of the saved file with the same password, into
\* the type of v, returns v.
C1_RoundTripEveryValue ==
    \A p \in Procs :
        (/\ LoadOfLast(p)
         /\ handle[p].password = last.password
         /\ fr[p].ty = last.value.ty)
        => ret[p] = Ret("load", "ok", last.value, NoErr)

\* C1, amended: for every value v that serde_json reads back from its own
\* output, and every password, a load of the saved file with the same
\* password, into the type of v, returns v.
C1_RoundTrip ==
    \A p \in Procs :
        (/\ LoadOfLast(p)
         /\ handle[p].password = last.password
         /\ fr[p].ty = last.value.ty
         /\ CodecRoundTrips(last.value))
        => ret[p] = Ret("load", "ok", last.value, NoErr)

C1_Witness ==
    \E p \in Procs :
        /\ LoadOfLast(p)
        /\ handle[p].password = last.password
        /\ last.value = Val("opt_u8", 42)
        /\ ret[p] = Ret("load", "ok", Val("opt_u8", 42), NoErr)

\* C2: a load of a saved file through a handle with another password than
\* the one of the save returns the error DecryptionFailed: no value, no
\* panic, no other error.
C2_WrongPassword ==
    \A p \in Procs :
        (LoadOfLast(p) /\ handle[p].password # last.password)
        => ret[p] = Ret("load", "err", NoValue, DecryptionFailed)

C2_Witness ==
    \E p \in Procs :
        /\ LoadOfLast(p)
        /\ handle[p].password = ""
        /\ last.password = "correct"
        /\ ret[p].err = DecryptionFailed

\* C3: every step that changes what the vault path names is the rename of
\* a save, and it puts the complete bytes of that save there; so before
\* the rename, and after a crash or an I/O error at any step of
\* atomic_write, the path names what it named before the call.
C3_AtomicWrite ==
    [][fs'[VaultPath] # fs[VaultPath]
         => \E p \in Procs :
               /\ pc[p] = "persist"
               /\ pc'[p] = "returned"
               /\ ret'[p] = Ret("save", "ok", NoValue, NoErr)
               /\ fs'[VaultPath] = File(fr[p].encoded)]_vars

\* a caller crashed while it was writing: its temporary file is partial and
\* the vault is the complete file of the save before
C3_Witness ==
    /\ crashes > 0
    /\ last.by # ""
    /\ fs[VaultPath] = File(last.bytes)
    /\ \E n \in 1..MaxCalls :
          /\ fs[TmpPath(n)].exists
          /\ Len(fs[TmpPath(n)].data) > 0
          /\ Len(fs[TmpPath(n)].data) < HEADER_SIZE + TAG_SIZE

\* C4: the salts of any two committed saves differ and so do their nonces;
\* the bytes a save is about to commit differ from the bytes of the file
\* it replaces, in the salt and in the nonce.
C4_Freshness ==
    /\ \A i, j \in 1..Len(commits) :
          i # j => /\ commits[i].salt # commits[j].salt
                   /\ commits[i].nonce # commits[j].nonce
    /\ \A p \in Procs :
          (pc[p] = "persist" /\ last.by # "")
          => /\ fr[p].encoded # last.bytes
             /\ Slice(fr[p].encoded, 5, 5 + SALT_SIZE) # Slice(last.bytes, 5, 5 + SALT_SIZE)
             /\ Slice(fr[p].encoded, HEADER_SIZE - NONCE_SIZE, HEADER_SIZE)
                    # Slice(last.bytes, HEADER_SIZE - NONCE_SIZE, HEADER_SIZE)

\* two saves of the same value with the same password have committed
C4_Witness ==
    /\ Len(commits) >= 2
    /\ commits[2].again
    /\ commits[2].salt # commits[1].salt
    /\ commits[2].nonce # commits[1].nonce

\* C5: decode returns, for every input: InvalidFormat when the input is
\* shorter than 61 bytes; otherwise InvalidFormat when bytes 0..4 are not
\* the magic; otherwise UnsupportedVersion(v) when byte 4 is v # 1;
\* otherwise Ok.  It never panics.
C5_DecodeOrder ==
    probed.tag # "none" =>
        /\ probed.tag # "panic"
        /\ IF Len(probe) < 61
           THEN probed.tag = "err" /\ probed.err.kind = "InvalidFormat"
           ELSE IF SubSeq(probe, 1, 4) # <<83, 86, 76, 84>>
           THEN probed.tag = "err" /\ probed.err.kind = "InvalidFormat"
           ELSE IF probe[5] # 1
           THEN probed.tag = "err" /\ probed.err = UnsupportedVersion(probe[5])
           ELSE probed.tag = "ok" /\ probed.err = NoErr

\* an input of full length with a wrong magic and an unsupported version
C5_Witness ==
    /\ probed.tag = "err"
    /\ Len(probe) >= 61
    /\ SubSeq(probe, 1, 4) # <<83, 86, 76, 84>>
    /\ probe[5] = 99
    /\ probed.err.kind = "InvalidFormat"

\* raw is orig with bytes of the salt, the nonce or the ciphertext altered,
\* or with the ciphertext cut short: at least the header is left, and the
\* magic, the version and the cost parameters are those of orig
TamperedPayload(raw, orig) ==
    /\ Len(raw) >= 61
    /\ Len(raw) <= Len(orig)
    /\ raw # orig
    /\ \A i \in (1..5) \cup (38..49) : raw[i] = orig[i]

\* C6: a load, with the password of the save, of a saved file in which
\* bytes of the salt, the nonce or the ciphertext were altered, or whose
\* ciphertext was truncated (down to the 61 bytes of the header), returns
\* DecryptionFailed, and so does a load of the intact file with another
\* password: the two results are the same value.
C6_UniformFailure ==
    \A p \in Procs :
        (/\ pc[p] = "returned"
         /\ fr[p].op = "load"
         /\ last.by # ""
         /\ \/ handle[p].password = last.password /\ TamperedPayload(fr[p].raw, last.bytes)
            \/ handle[p].password # last.password /\ fr[p].raw = last.bytes)
        => ret[p] = Ret("load", "err", NoValue, DecryptionFailed)

\* the file truncated to its header, loaded with the password of the save
C6_Witness ==
    \E p \in Procs :
        /\ pc[p] = "returned"
        /\ fr[p].op = "load"
        /\ last.by # ""
        /\ handle[p].password = last.password
        /\ fr[p].raw = SubSeq(last.bytes, 1, 61)
        /\ ret[p].err = DecryptionFailed

\* C7: a load with the password of the save succeeds whatever the cost
\* parameters of its handle are, also when they differ from those of the
\* save; and the cost parameters in the header of a saved file are those
\* the saving handle had.
C7_HeaderParams ==
    /\ \A p \in Procs :
          (/\ LoadOfLast(p)
           /\ handle[p].password = last.password
           /\ <<handle[p].m_cost, handle[p].t_cost, handle[p].p_cost>>
                 # <<last.m_cost, last.t_cost, last.p_cost>>)
          => /\ ret[p].status = "ok" \/ ret[p].err.kind = "DeserializationError"
             /\ (fr[p].ty = last.value.ty /\ CodecRoundTrips(last.value))
                   => ret[p] = Ret("load", "ok", last.value, NoErr)
    /\ last.by # "" =>
          /\ from_le_bytes(SubSeq(last.bytes, 38, 41)) = last.m_cost
          /\ from_le_bytes(SubSeq(last.bytes, 42, 45)) = last.t_cost
          /\ from_le_bytes(SubSeq(last.bytes, 46, 49)) = last.p_cost

\* a file saved with the parameters of the tests, loaded through a handle
\* with the default parameters
C7_Witness ==
    \E p \in Procs :
        /\ LoadOfLast(p)
        /\ last.m_cost = 8
        /\ handle[p].m_cost = 65536
        /\ handle[p].t_cost = 3
        /\ ret[p] = Ret("load", "ok", last.value, NoErr)

\* C8: a load of a file that is shorter than 61 bytes, or does not start
\* with the magic, or has a version byte other than 1, returns
\* InvalidFormat or UnsupportedVersion and has called neither derive_key
\* nor decrypt; no load that returns one of these errors has called them.
C8_RejectBeforeCrypto ==
    \A p \in Procs :
        (pc[p] = "returned" /\ fr[p].op = "load" /\ Len(fr[p].trace) >= 2)
        => /\ (\/ Len(fr[p].raw) < 61
               \/ SubSeq(fr[p].raw, 1, 4) # <<83, 86, 76, 84>>
               \/ fr[p].raw[5] # 1)
              => /\ ret[p].status = "err"
                 /\ ret[p].err.kind \in {"InvalidFormat", "UnsupportedVersion"}
                 /\ NoCrypto(fr[p].trace)
           /\ ret[p].err.kind \in {"InvalidFormat", "UnsupportedVersion"}
              => NoCrypto(fr[p].trace)

\* a saved file whose version byte was set to 99
C8_Witness ==
    \E p \in Procs :
        /\ pc[p] = "returned"
        /\ fr[p].op = "load"
        /\ last.by # ""
        /\ Len(fr[p].raw) = Len(last.bytes)
        /\ ret[p].err = UnsupportedVersion(99)
        /\ fr[p].trace = <<"fs::read", "decode">>

\* C9: with saves interleaved, the vault file is at every moment, and so
\* when all have returned, byte for byte the complete payload of the save
\* whose rename came last; a load never reads anything but a complete
\* payload: it decrypts what it read.
C9_LastRenameWins ==
    /\ fs[VaultPath].exists => (last.by # "" /\ fs[VaultPath].data = last.bytes)
    /\ \A p \in Procs :
          (pc[p] = "returned" /\ fr[p].op = "load" /\ Len(fr[p].trace) >= 2)
          => /\ fr[p].trace = <<"fs::read", "decode", "derive_key", "decrypt", "from_slice">>
             /\ \/ ret[p].status = "ok" /\ ret[p].value \in ConcValues
                \/ ret[p].err.kind = "DeserializationError"

\* caller a started its save first and renamed last, after b's save
\* committed in between; both have returned
C9_Witness ==
    /\ pc["a"] = "returned" /\ ret["a"] = Ret("save", "ok", NoValue, NoErr)
    /\ pc["b"] = "returned" /\ ret["b"] = Ret("save", "ok", NoValue, NoErr)
    /\ fr["a"].call < fr["b"].call
    /\ last.by = "a"
    /\ fs[VaultPath].data = fr["a"].encoded

C11_LoadReadOnly ==
    [][\A p \in Procs :
          (fr[p].op # "load" /\ fr'[p].op = "load") => fs' = fs]_vars

\* a load of a file that something else has replaced returned an error,
\* and the file holds the bytes the load read
C11_Witness ==
    \E p \in Procs :
        /\ pc[p] = "returned"
        /\ fr[p].op = "load"
        /\ ret[p].status = "err"
        /\ external > 0
        /\ fs[VaultPath] = File(fr[p].raw)
        /\ Len(fr[p].raw) > 0

\* the cost parameters Argon2 does not accept: fewer than 8 KiB of memory
\* or than 8 KiB per lane, no pass, no lane, more than 2^24 - 1 lanes
InvalidCosts(m_cost, t_cost, p_cost) ==
    \/ m_cost < 8
    \/ m_cost \div 8 < p_cost
    \/ t_cost < 1
    \/ p_cost < 1
    \/ p_cost > 16777215

\* C12: a save of a value that serializes, on a handle with invalid cost
\* parameters, returns KdfError in the step it is called in and leaves
\* every file as it is; on a handle with valid cost parameters key
\* derivation does not fail, whatever the password, the empty one included:
\* the save goes on to atomic_write.
C12_InvalidParams ==
    [][\A p \in Procs :
          (fr[p].op # "save" /\ fr'[p].op = "save" /\ to_vec(fr'[p].value).ok)
          => IF InvalidCosts(handle[p].m_cost, handle[p].t_cost, handle[p].p_cost)
             THEN /\ pc'[p] = "returned"
                  /\ ret'[p].status = "err"
                  /\ ret'[p].err.kind = "KdfError"
                  /\ fs' = fs
             ELSE /\ pc'[p] = "create_dir_all"
                  /\ ret'[p] = NoRet]_vars

\* C13: exists() is true exactly when the rename of some save has
\* committed: false before the first save, false while a save is under
\* way and after a save failed or its caller crashed before the rename,
\* true after every successful save; and a step that opens a handle, with
\* or without with_params, leaves the files and the directory as they are.
C13_Exists ==
    [][/\ exists(fs) <=> (commits # <<>>)
       /\ exists(fs') <=> (commits' # <<>>)
       /\ \A p \in Procs :
             (handle'[p].open /\ handle'[p] # handle[p])
             => (fs' = fs /\ parent' = parent)]_vars

\* a caller crashed in its save before the rename: its temporary file is
\* there and the vault is not
C13_Witness ==
    /\ crashes > 0
    /\ commits = <<>>
    /\ ~exists(fs)
    /\ \E n \in 1..MaxCalls : fs[TmpPath(n)].exists
    /\ \E p \in Procs : handle[p].open

\* the four bytes of b from offset off are x, least significant byte first
LittleEndianAt(b, off, x) ==
    /\ b[off + 1] = x % 256
    /\ b[off + 2] = (x \div 256) % 256
    /\ b[off + 3] = (x \div 65536) % 256
    /\ b[off + 4] = (x \div 16777216) % 256

\* C14: for every header h and every ciphertext c, the empty one included,
\* encode(h, c) is 61 + len(c) bytes: "SVLT" at 0..4, 1 at 4, the salt at
\* 5..37, m_cost, t_cost and p_cost little-endian at 37, 41 and 45, the
\* nonce at 49..61 and c from 61; decode of these bytes returns Ok with
\* the fields of h and with c.
C14_CodecRoundTrip ==
    /\ probed.tag = "encoded" =>
          LET b == probed.bytes
              h == probe.header
          IN  /\ Len(b) = 61 + Len(probe.ciphertext)
              /\ SubSeq(b, 1, 4) = <<83, 86, 76, 84>>
              /\ b[5] = 1
              /\ SubSeq(b, 6, 37) = h.salt
              /\ LittleEndianAt(b, 37, h.m_cost)
              /\ LittleEndianAt(b, 41, h.t_cost)
              /\ LittleEndianAt(b, 45, h.p_cost)
              /\ SubSeq(b, 50, 61) = h.nonce
              /\ SubSeq(b, 62, Len(b)) = probe.ciphertext
    /\ probed.tag \notin {"none", "encoded"} =>
          /\ probed.tag = "ok"
          /\ probed.err = NoErr
          /\ probed.header.salt = probe.header.salt
          /\ probed.header.m_cost = probe.header.m_cost
          /\ probed.header.t_cost = probe.header.t_cost
          /\ probed.header.p_cost = probe.header.p_cost
          /\ probed.header.nonce = probe.header.nonce
          /\ probed.ciphertext = probe.ciphertext

\* a header with three different costs and an empty ciphertext came back
C14_Witness ==
    /\ probed.tag = "ok"
    /\ probe.ciphertext = <<>>
    /\ probe.header.m_cost = 2147483647
    /\ probe.header.t_cost = 16909060
    /\ probe.header.p_cost = 0
    /\ probed.header = probe.header

\* raw is orig with bytes of the cost parameters (offsets 37..49) altered
\* and nothing else
CostsAltered(raw, orig) ==
    /\ Len(raw) = Len(orig)
    /\ raw # orig
    /\ \A i \in 1..Len(raw) : (i < 38 \/ i > 49) => raw[i] = orig[i]

\* C15: a load, with the password of the save, of a saved file in which
\* only bytes of the cost parameters were altered returns an error: KdfError
\* when the altered parameters are invalid for Argon2, DecryptionFailed
\* when they are valid.
C15_CorruptedCosts ==
    \A p \in Procs :
        (/\ pc[p] = "returned"
         /\ fr[p].op = "load"
         /\ last.by # ""
         /\ handle[p].password = last.password
         /\ CostsAltered(fr[p].raw, last.bytes))
        => /\ ret[p].status = "err"
           /\ IF InvalidCosts(from_le_bytes(SubSeq(fr[p].raw, 38, 41)),
                              from_le_bytes(SubSeq(fr[p].raw, 42, 45)),
                              from_le_bytes(SubSeq(fr[p].raw, 46, 49)))
              THEN ret[p].err.kind = "KdfError"
              ELSE ret[p].err = DecryptionFailed

====
